---- MODULE Spec2Model ----
(***************************************************************************)
(* Groth16 verifier of bellperson (src/groth16/verifier.rs):               *)
(* prepare_verifying_key, verify_proof, verify_proofs_batch and            *)
(* get_verifier_kernel, over a scaled-down pairing engine.                 *)
(*                                                                         *)
(* The engine E is modelled by discrete logarithms: Fr is the prime field  *)
(* of order Q, a point of G1 or G2 is its logarithm in 0..Q-1 (the group   *)
(* identity is 0), an element of the pairing target group is its           *)
(* logarithm too, and e(a, b) = a * b.  An element of Fqk is either the    *)
(* additive zero or a unit with a component g in the order-Q subgroup and  *)
(* a component u in the cofactor that the final exponentiation removes.    *)
(***************************************************************************)
EXTENDS Integers, Sequences, FiniteSets, TLC

(***************************************************************************)
(* Bounds of the model.                                                    *)
(***************************************************************************)
MaxProofs == 2
MaxThreads == 2

(***************************************************************************)
(* Scaled program constants.                                               *)
(***************************************************************************)
\* order of Fr, G1, G2 and the target group (a prime larger than 2^(2*LimbBits))
Q == 5
\* order of the cofactor part of Fqk* killed by final_exponentiation
U == 2
\* bits of one u64 limb of a scalar representation (64 in the source)
LimbBits == 1
\* limbs of <E::Fr as PrimeField>::Repr
ReprLimbs == 4
\* utils::WINDOW_SIZE
WINDOW_SIZE == 2

Pow2(n) == 2 ^ n

(***************************************************************************)
(* Field and group arithmetic of the engine.                               *)
(***************************************************************************)
Fr == 0..(Q - 1)

FrAdd(x, y) == (x + y) % Q

FrMul(x, y) == (x * y) % Q

FrNeg(x) == (Q - x) % Q

\* PrimeField::into_repr: the canonical integer of a field element
into_repr(x) == x

\* PrimeField::from_repr: <<x>> is Ok(x), <<>> the error for an integer that is
\* not below the modulus
from_repr(n) == IF n < Q THEN <<n>> ELSE <<>>

\* CurveProjective::add_assign / add_assign_mixed
GAdd(p, q) == (p + q) % Q

\* CurveProjective::double
GDouble(p) == (2 * p) % Q

\* CurveProjective::negate
GNeg(p) == (Q - p) % Q

\* CurveAffine::mul / CurveProjective::mul_assign by a scalar representation
GMul(p, k) == (p * k) % Q

\* Fqk::zero()
FqkZero == [z |-> TRUE, g |-> 0, u |-> 0]

\* Fqk::mul_assign
FqkMul(x, y) ==
  IF x.z \/ y.z THEN FqkZero
  ELSE [z |-> FALSE, g |-> (x.g + y.g) % Q, u |-> (x.u + y.u) % U]

RECURSIVE MillerFrom(_, _)
MillerFrom(pairs, i) ==
  IF i > Len(pairs) THEN [z |-> FALSE, g |-> 0, u |-> 0]
  ELSE FqkMul([z |-> FALSE,
               g |-> (pairs[i][1] * pairs[i][2]) % Q,
               u |-> (pairs[i][1] + 2 * pairs[i][2] + 1) % U],
              MillerFrom(pairs, i + 1))

\* E::miller_loop over prepared pairs (G1, G2)
miller_loop(pairs) == MillerFrom(pairs, 1)

\* E::final_exponentiation: <<>> is None (on zero), <<y>> is Some(y) with y in
\* the target group
final_exponentiation(f) == IF f.z THEN <<>> ELSE <<f.g>>

\* E::pairing
pairing(p, q) == final_exponentiation(miller_loop(<<<<p, q>>>>))[1]

\* Fqk::pow in the target group
GtPow(y, k) == (y * k) % Q

(***************************************************************************)
(* Verifying keys, proofs and public inputs the calls are made with.       *)
(* A key is [alpha_g1, beta_g2, gamma_g2, delta_g2, ic] with ic nonempty   *)
(* and gamma_g2, delta_g2 not the identity.                                *)
(***************************************************************************)
Keys ==
  { [alpha_g1 |-> 1, beta_g2 |-> 2, gamma_g2 |-> 3, delta_g2 |-> 2, ic |-> <<1>>],
    [alpha_g1 |-> 2, beta_g2 |-> 3, gamma_g2 |-> 3, delta_g2 |-> 4, ic |-> <<1, 3>>],
    [alpha_g1 |-> 1, beta_g2 |-> 4, gamma_g2 |-> 2, delta_g2 |-> 3, ic |-> <<2, 1, 3>>] }

ProofVals ==
  { [a |-> 1, b |-> 2, c |-> 0], [a |-> 1, b |-> 2, c |-> 1],
    [a |-> 2, b |-> 4, c |-> 2] }

\* public inputs of the entries of a batch call
InputVecs == { <<>>, <<2>>, <<4>>, <<1, 2>> }

\* public inputs of a verify_proof call
SingleInputVecs == InputVecs \cup { <<3, 0>>, <<1, 1, 1>> }

SeqsUpTo(S, n) == UNION { [1..k -> S] : k \in 0..n }

\* the slices of proofs and of public-input lists a batch call is made with
ProofSeqs == SeqsUpTo(ProofVals, MaxProofs)

InputLists == SeqsUpTo(InputVecs, MaxProofs)

\* values of the BELLMAN_VERIFIER environment variable
NotSet == [set |-> FALSE, val |-> <<>>]

SetTo(s) == [set |-> TRUE, val |-> s]

Policies ==
  { NotSet,
    SetTo(<<"a", "u", "t", "o">>),
    SetTo(<<"C", "P", "U">>),
    SetTo(<<"G", "p", "u">>),
    SetTo(<<"q", "u", "a", "n", "t", "u", "m">>) }

(***************************************************************************)
(* Multiscalar engine (utils): fixed-window table and its evaluation.      *)
(***************************************************************************)
\* utils::precompute_fixed_window: per point, its multiples 1 .. 2^w - 1
precompute_fixed_window(points, w) ==
  [i \in 1..Len(points) |-> [d \in 1..(Pow2(w) - 1) |-> GMul(points[i], d)]]

\* MultiscalarPrecomp::at_point: the tables from point idx (0-based) on
at_point(tables, idx) == [i \in 1..(Len(tables) - idx) |-> tables[i + idx]]

\* digit number k (0 = least significant) of width w of a representation
Digit(s, w, k) == (s \div Pow2(w * k)) % Pow2(w)

RECURSIVE WindowSum(_, _, _, _, _)
\* sum over the first n points of table[i][digit k of scalar i]
WindowSum(k_, tables, n, w, kwin) ==
  IF n = 0 THEN 0
  ELSE LET d == Digit(k_[n], w, kwin)
           rest == WindowSum(k_, tables, n - 1, w, kwin)
       IN IF d = 0 THEN rest ELSE GAdd(rest, tables[n][d])

RECURSIVE DoubleTimes(_, _)
DoubleTimes(p, n) == IF n = 0 THEN p ELSE DoubleTimes(GDouble(p), n - 1)

RECURSIVE ChunkPart(_, _, _, _, _, _)
\* one thread's private partial sum over the windows lo .. hi of every scalar
ChunkPart(k_, tables, n, w, lo, hi) ==
  IF hi < lo THEN 0
  ELSE GAdd(DoubleTimes(ChunkPart(k_, tables, n, w, lo + 1, hi), w),
            WindowSum(k_, tables, n, w, lo))

CeilDiv(a, b) == (a + b - 1) \div b

RECURSIVE CombineParts(_, _, _, _, _, _, _)
\* Horner combination of the chunks c .. last, most significant first
CombineParts(k_, tables, n, w, cw, nw, c) ==
  LET lo == c * cw
      hi == IF (c + 1) * cw < nw THEN (c + 1) * cw - 1 ELSE nw - 1
  IN IF lo >= nw THEN 0
     ELSE GAdd(DoubleTimes(CombineParts(k_, tables, n, w, cw, nw, c + 1), w * cw),
               ChunkPart(k_, tables, n, w, lo, hi))

\* utils::par_multiscalar(max_threads, k, precomp_table, num_points, nbits)
par_multiscalar(max_threads, k_, tables, num_points, nbits) ==
  LET nw == nbits \div WINDOW_SIZE
      cw == CeilDiv(nw, max_threads)
  IN CombineParts(k_, tables, num_points, WINDOW_SIZE, cw, nw, 0)

RECURSIVE MultiexpFrom(_, _, _)
MultiexpFrom(bases, exps, i) ==
  IF i > Len(bases) THEN 0
  ELSE GAdd(GMul(bases[i], exps[i]), MultiexpFrom(bases, exps, i + 1))

\* crate::multiexp::multiexp(..).wait().unwrap(), on the CPU or on the kernel
multiexp(bases, exps, kern) == MultiexpFrom(bases, exps, 1)

(***************************************************************************)
(* prepare_verifying_key                                                   *)
(***************************************************************************)
NoKey == [ic |-> <<>>]

prepare_verifying_key_no_negation(v) ==
  [ alpha_g1_beta_g2 |-> pairing(v.alpha_g1, v.beta_g2),
    neg_gamma_g2 |-> v.gamma_g2,
    neg_delta_g2 |-> GNeg(v.delta_g2),
    gamma_g2 |-> v.gamma_g2,
    delta_g2 |-> v.delta_g2,
    ic |-> v.ic,
    multiscalar |-> precompute_fixed_window(v.ic, WINDOW_SIZE) ]

prepare_verifying_key(v) ==
  [ alpha_g1_beta_g2 |-> pairing(v.alpha_g1, v.beta_g2),
    neg_gamma_g2 |-> GNeg(v.gamma_g2),
    neg_delta_g2 |-> GNeg(v.delta_g2),
    gamma_g2 |-> v.gamma_g2,
    delta_g2 |-> v.delta_g2,
    ic |-> v.ic,
    multiscalar |-> precompute_fixed_window(v.ic, WINDOW_SIZE) ]

(***************************************************************************)
(* get_verifier_kernel                                                     *)
(***************************************************************************)
\* char::to_lowercase on the letters the policy values are written with
ToLowerChar(c) ==
  CASE c = "A" -> "a" [] c = "C" -> "c" [] c = "G" -> "g" [] c = "O" -> "o"
    [] c = "P" -> "p" [] c = "T" -> "t" [] c = "U" -> "u" [] OTHER -> c

\* str::to_lowercase
to_lowercase(s) == [i \in 1..Len(s) |-> ToLowerChar(s[i])]

\* std::env::var("BELLMAN_VERIFIER").unwrap_or("auto".to_string())
EnvVarOrAuto(e) == IF e.set THEN e.val ELSE <<"a", "u", "t", "o">>

\* (pi_num as f32).log2().ceil() as usize; the cast saturates -inf to 0
Log2Ceil(n) ==
  IF n <= 1 THEN 0
  ELSE CHOOSE k \in 1..n : Pow2(k) >= n /\ Pow2(k - 1) < n

get_verifier_kernel_case_sensitive(pi_num, e) ==
  LET s == EnvVarOrAuto(e)
  IN IF s = <<"g", "p", "u">> THEN [tag |-> "Some", log_d |-> Log2Ceil(pi_num)]
     ELSE IF s = <<"c", "p", "u">> THEN [tag |-> "None", log_d |-> 0]
     ELSE IF s = <<"a", "u", "t", "o">> THEN [tag |-> "None", log_d |-> 0]
     ELSE [tag |-> "panic", log_d |-> 0]

\* the Option<LockedMultiexpKernel> the match yields, or the panic of its last arm
get_verifier_kernel(pi_num, e) ==
  LET s == to_lowercase(EnvVarOrAuto(e))
  IN IF s = <<"g", "p", "u">> THEN [tag |-> "Some", log_d |-> Log2Ceil(pi_num)]
     ELSE IF s = <<"c", "p", "u">> THEN [tag |-> "None", log_d |-> 0]
     ELSE IF s = <<"a", "u", "t", "o">> THEN [tag |-> "None", log_d |-> 0]
     ELSE [tag |-> "panic", log_d |-> 0]

(***************************************************************************)
(* State.                                                                  *)
(***************************************************************************)
VARIABLES
  env,            \* the BELLMAN_VERIFIER environment variable of the process
  vk,             \* the verifying key
  pvk,            \* the prepared verifying key, NoKey before it is prepared
  op,             \* the call in progress or last made
  pc,             \* where that call stands
  result,         \* what the call returned
  work,           \* the kinds of work the call has performed so far
  proof,          \* verify_proof: proof
  public_inputs,  \* verify_proof: public_inputs
  proofs,         \* verify_proofs_batch: proofs
  inputs_list,    \* verify_proofs_batch: public_inputs
  body,           \* verify_proof: position of the closure given to rayon::scope
  task,           \* verify_proof: the two spawned sub-tasks
  ml_a_b,         \* verify_proof: locals of the installed closure
  ml_all,
  ml_acc,
  acc,
  num_threads,    \* utils::POOL.current_num_threads() as read by the call
  writers,        \* verify_proof: who wrote each miller-loop slot inside the scope
  draws,          \* verify_proofs_batch: the u128 values drawn from rng
  r,              \* verify_proofs_batch: locals
  sum_r,
  pi_scalars,
  multiexp_kern,
  acc_pi,
  acc_y,
  acc_c

callVars == <<op, pc, result, work>>

singleArgs == <<proof, public_inputs>>

batchArgs == <<proofs, inputs_list>>

scopeVars == <<body, task, ml_a_b, ml_all, ml_acc, acc, num_threads, writers>>

batchVars == <<draws, r, sum_r, pi_scalars, multiexp_kern, acc_pi, acc_y, acc_c>>

vars == <<env, vk, pvk, callVars, singleArgs, batchArgs, scopeVars, batchVars>>

NoProof == [a |-> 0, b |-> 0, c |-> 0]

NoKernel == [tag |-> "unset", log_d |-> 0]

\* the locals of verify_proof before the scope runs (lines 45-47)
ScopeFresh ==
  /\ body' = "none"
  /\ task' = [t \in {"ab", "c"} |-> "unspawned"]
  /\ ml_a_b' = FqkZero
  /\ ml_all' = FqkZero
  /\ ml_acc' = FqkZero
  /\ acc' = 0
  /\ num_threads' = 0
  /\ writers' = [s \in {"ml_a_b", "ml_all", "ml_acc"} |-> {}]

\* the locals of verify_proofs_batch before they are computed
BatchFresh ==
  /\ draws' = <<>>
  /\ r' = <<>>
  /\ sum_r' = 0
  /\ pi_scalars' = <<>>
  /\ multiexp_kern' = NoKernel
  /\ acc_pi' = 0
  /\ acc_y' = 0
  /\ acc_c' = 0

Init ==
  /\ env \in Policies
  /\ vk \in Keys
  /\ pvk = NoKey
  /\ op = "none"
  /\ pc = "idle"
  /\ result = "none"
  /\ work = {}
  /\ proof = NoProof
  /\ public_inputs = <<>>
  /\ proofs = <<>>
  /\ inputs_list = <<>>
  /\ body = "none"
  /\ task = [t \in {"ab", "c"} |-> "unspawned"]
  /\ ml_a_b = FqkZero
  /\ ml_all = FqkZero
  /\ ml_acc = FqkZero
  /\ acc = 0
  /\ num_threads = 0
  /\ writers = [s \in {"ml_a_b", "ml_all", "ml_acc"} |-> {}]
  /\ draws = <<>>
  /\ r = <<>>
  /\ sum_r = 0
  /\ pi_scalars = <<>>
  /\ multiexp_kern = NoKernel
  /\ acc_pi = 0
  /\ acc_y = 0
  /\ acc_c = 0

\* a caller may make a call once the key is prepared and no call is running
CanCall == pvk # NoKey /\ pc = "idle"

PrepareVerifyingKey ==
  /\ pvk = NoKey
  /\ pvk' = prepare_verifying_key(vk)
  /\ UNCHANGED <<env, vk, callVars, singleArgs, batchArgs, scopeVars, batchVars>>

(***************************************************************************)
(* verify_proof                                                            *)
(***************************************************************************)
LengthOkOrShorter(inp, k) == (Len(inp) + 1) <= Len(k.ic)

\* the negation of the test of lines 39 and 106
LengthOk(inp, k) == (Len(inp) + 1) = Len(k.ic)

\* lines 32-47: the length check, then the locals of the installed closure
VerifyProof(p, inp) ==
  /\ CanCall
  /\ op' = "verify_proof"
  /\ proof' = p
  /\ public_inputs' = inp
  /\ proofs' = <<>>
  /\ inputs_list' = <<>>
  /\ work' = {}
  /\ BatchFresh
  /\ task' = [t \in {"ab", "c"} |-> "unspawned"]
  /\ ml_a_b' = FqkZero
  /\ ml_all' = FqkZero
  /\ ml_acc' = FqkZero
  /\ acc' = 0
  /\ num_threads' = 0
  /\ writers' = [s \in {"ml_a_b", "ml_all", "ml_acc"} |-> {}]
  /\ IF ~LengthOk(inp, pvk)
     THEN /\ result' = "Err(MalformedVerifyingKey)"
          /\ pc' = "done"
          /\ body' = "none"
     ELSE /\ result' = "none"
          /\ pc' = "scope"
          /\ body' = "spawn_ab"
  /\ UNCHANGED <<env, vk, pvk>>

\* lines 51-54: s.spawn of the (A, B) miller loop
ScopeSpawnAB ==
  /\ pc = "scope"
  /\ body = "spawn_ab"
  /\ task' = [task EXCEPT !["ab"] = "spawned"]
  /\ body' = "spawn_c"
  /\ work' = work \cup {"spawn"}
  /\ UNCHANGED <<env, vk, pvk, op, pc, result, singleArgs, batchArgs, batchVars,
                 ml_a_b, ml_all, ml_acc, acc, num_threads, writers>>

\* lines 56-57: s.spawn of the (C, -delta) miller loop
ScopeSpawnC ==
  /\ pc = "scope"
  /\ body = "spawn_c"
  /\ task' = [task EXCEPT !["c"] = "spawned"]
  /\ body' = "multiscalar"
  /\ work' = work \cup {"spawn"}
  /\ UNCHANGED <<env, vk, pvk, op, pc, result, singleArgs, batchArgs, batchVars,
                 ml_a_b, ml_all, ml_acc, acc, num_threads, writers>>

\* line 53, run by a worker of the pool once spawned
TaskAB ==
  /\ task["ab"] = "spawned"
  /\ ml_a_b' = miller_loop(<<<<proof.a, proof.b>>>>)
  /\ writers' = [writers EXCEPT !["ml_a_b"] = @ \cup {"task_ab"}]
  /\ task' = [task EXCEPT !["ab"] = "done"]
  /\ work' = work \cup {"miller_loop"}
  /\ UNCHANGED <<env, vk, pvk, op, pc, result, singleArgs, batchArgs, batchVars,
                 body, ml_all, ml_acc, acc, num_threads>>

\* line 57, run by a worker of the pool once spawned
TaskC ==
  /\ task["c"] = "spawned"
  /\ ml_all' = miller_loop(<<<<proof.c, pvk.neg_delta_g2>>>>)
  /\ writers' = [writers EXCEPT !["ml_all"] = @ \cup {"task_c"}]
  /\ task' = [task EXCEPT !["c"] = "done"]
  /\ work' = work \cup {"miller_loop"}
  /\ UNCHANGED <<env, vk, pvk, op, pc, result, singleArgs, batchArgs, batchVars,
                 body, ml_a_b, ml_acc, acc, num_threads>>

\* size_of::<<E::Fr as PrimeField>::Repr>() * 8 (line 71)
ReprBits == ReprLimbs * LimbBits

\* public_inputs.iter().map(PrimeField::into_repr).collect() (lines 63-64)
ReprsOf(xs) == [i \in 1..Len(xs) |-> into_repr(xs[i])]

\* lines 61-74: the accumulation over the public inputs, plus ic[0]
ScopeMultiscalar(n) ==
  /\ pc = "scope"
  /\ body = "multiscalar"
  /\ num_threads' = n
  /\ acc' = GAdd(par_multiscalar(n, ReprsOf(public_inputs),
                                 at_point(pvk.multiscalar, 1),
                                 Len(public_inputs), ReprBits),
                 pvk.ic[1])
  /\ body' = "ml_acc"
  /\ work' = work \cup {"multiscalar"}
  /\ UNCHANGED <<env, vk, pvk, op, pc, result, singleArgs, batchArgs, batchVars,
                 task, ml_a_b, ml_all, ml_acc, writers>>

\* lines 77-78: the miller loop of (Acc, -gamma), inline in the scope's closure
ScopeMlAcc ==
  /\ pc = "scope"
  /\ body = "ml_acc"
  /\ ml_acc' = miller_loop(<<<<acc, pvk.neg_gamma_g2>>>>)
  /\ writers' = [writers EXCEPT !["ml_acc"] = @ \cup {"scope_body"}]
  /\ body' = "end"
  /\ work' = work \cup {"miller_loop"}
  /\ UNCHANGED <<env, vk, pvk, op, pc, result, singleArgs, batchArgs, batchVars,
                 task, ml_a_b, ml_all, acc, num_threads>>

ScopeJoinedBodyOnly == body = "end"

\* rayon::scope returns (line 79) when its closure and every spawned task ended
ScopeJoined == body = "end" /\ \A t \in {"ab", "c"} : task[t] = "done"

\* lines 81-82
CombineMl == FqkMul(FqkMul(ml_all, ml_a_b), ml_acc)

\* lines 79-92: the join, the product, the final exponentiation, the comparison
VerifyProofReturn ==
  /\ pc = "scope"
  /\ ScopeJoined
  /\ ml_all' = CombineMl
  /\ LET fe == final_exponentiation(CombineMl)
     IN result' = IF fe = <<>> THEN "panic"
                  ELSE IF fe[1] = pvk.alpha_g1_beta_g2 THEN "Ok(true)"
                  ELSE "Ok(false)"
  /\ pc' = IF final_exponentiation(CombineMl) = <<>> THEN "aborted" ELSE "done"
  /\ work' = work \cup {"final_exp"}
  /\ UNCHANGED <<env, vk, pvk, op, singleArgs, batchArgs, batchVars,
                 body, task, ml_a_b, ml_acc, acc, num_threads, writers>>

(***************************************************************************)
(* verify_proofs_batch                                                     *)
(***************************************************************************)
FirstLengthOk(lists, k) == Len(lists) = 0 \/ LengthOk(lists[1], k)

\* the loop of lines 105-109 finds no entry of the wrong length
AllLengthsOk(lists, k) == \A j \in 1..Len(lists) : LengthOk(lists[j], k)

\* the values of a u128 (two limbs) that rng.gen() can return
Draws == 0..(Pow2(2 * LimbBits) - 1)

CoefficientLowLimbOnly(t) ==
  LET el0 == t % Pow2(LimbBits)
  IN from_repr(el0)

\* lines 120-127: the draw t as a scalar representation of two limbs, then
\* from_repr; el_ref[0] = t & (u128::MAX >> 64), el_ref[1] = (t >> 64) as u64
Coefficient(t) ==
  LET el0 == t % Pow2(LimbBits)
      el1 == (t \div Pow2(LimbBits)) % Pow2(LimbBits)
  IN from_repr(el0 + el1 * Pow2(LimbBits))

RECURSIVE SumFr(_, _)
\* lines 130-133
SumFr(xs, i) == IF i > Len(xs) THEN 0 ELSE FrAdd(xs[i], SumFr(xs, i + 1))

\* lines 140-145 index public_inputs[j][i] for every j < proof_num
IndexInBounds(lists, proof_num, pi_num) ==
  \A i \in 1..pi_num : \A j \in 1..proof_num :
    j <= Len(lists) /\ i <= Len(lists[j])

RECURSIVE PiScalar(_, _, _, _)
\* lines 139-146: sum over j of r[j] * public_inputs[j][i]
PiScalar(rs, lists, i, j) ==
  IF j > Len(rs) THEN 0
  ELSE FrAdd(FrMul(rs[j], lists[j][i]), PiScalar(rs, lists, i, j + 1))

\* lines 136-148
PiScalars(rs, lists, pi_num) ==
  [i \in 1..pi_num |-> into_repr(PiScalar(rs, lists, i, 1))]

\* lines 96-113: the length check of every list, then worker and counts
VerifyProofsBatch(ps, lists) ==
  /\ CanCall
  /\ op' = "verify_proofs_batch"
  /\ proofs' = ps
  /\ inputs_list' = lists
  /\ proof' = NoProof
  /\ public_inputs' = <<>>
  /\ work' = {}
  /\ ScopeFresh
  /\ BatchFresh
  /\ IF ~AllLengthsOk(lists, pvk)
     THEN /\ result' = "Err(MalformedVerifyingKey)"
          /\ pc' = "done"
     ELSE /\ result' = "none"
          /\ pc' = "sample"
  /\ UNCHANGED <<env, vk, pvk>>

\* lines 115-148: the coefficients, their sum, and the combined scalars
BatchSample(ts) ==
  /\ pc = "sample"
  /\ LET proof_num == Len(proofs)
         pi_num == Len(pvk.ic) - 1
         els == [j \in 1..proof_num |-> Coefficient(ts[j])]
         rs == [j \in 1..proof_num |-> els[j][1]]
     IN /\ draws' = ts
        /\ work' = work \cup (IF proof_num > 0 THEN {"rng", "field"} ELSE {})
        /\ IF \E j \in 1..proof_num : els[j] = <<>>
           THEN \* from_repr(el).unwrap() on an Err (line 127)
                /\ result' = "panic"
                /\ pc' = "aborted"
                /\ UNCHANGED <<r, sum_r, pi_scalars>>
           ELSE IF ~IndexInBounds(inputs_list, proof_num, pi_num)
           THEN \* index out of bounds in public_inputs[j][i] (line 143)
                /\ r' = rs
                /\ sum_r' = SumFr(rs, 1)
                /\ result' = "panic"
                /\ pc' = "aborted"
                /\ UNCHANGED pi_scalars
           ELSE /\ r' = rs
                /\ sum_r' = SumFr(rs, 1)
                /\ pi_scalars' = PiScalars(rs, inputs_list, pi_num)
                /\ pc' = "kernel"
                /\ UNCHANGED result
  /\ UNCHANGED <<env, vk, pvk, op, singleArgs, batchArgs, scopeVars,
                 multiexp_kern, acc_pi, acc_y, acc_c>>

\* line 150
BatchGetKernel ==
  /\ pc = "kernel"
  /\ LET k == get_verifier_kernel(Len(pvk.ic) - 1, env)
     IN /\ work' = work \cup {"selector"}
                        \cup (IF k.tag = "Some" THEN {"kernel"} ELSE {})
        /\ IF k.tag = "panic"
           THEN /\ result' = "panic"
                /\ pc' = "aborted"
                /\ UNCHANGED multiexp_kern
           ELSE /\ multiexp_kern' = k
                /\ pc' = "finish"
                /\ UNCHANGED result
  /\ UNCHANGED <<env, vk, pvk, op, singleArgs, batchArgs, scopeVars,
                 draws, r, sum_r, pi_scalars, acc_pi, acc_y, acc_c>>

AccPiUnscaledIc0(k, s, scalars, kern) ==
  GAdd(k.ic[1], multiexp(SubSeq(k.ic, 2, Len(k.ic)), scalars, kern))

\* lines 154-165: Accum_Gamma
AccPi(k, s, scalars, kern) ==
  GAdd(GMul(k.ic[1], into_repr(s)),
       multiexp(SubSeq(k.ic, 2, Len(k.ic)), scalars, kern))

AccYNoNegation(k, s) == GtPow(k.alpha_g1_beta_g2, into_repr(s))

\* lines 169-171: Y^-Accum_Y
AccY(k, s) == GtPow(k.alpha_g1_beta_g2, into_repr(FrNeg(s)))

Min(a, b) == IF a < b THEN a ELSE b

RECURSIVE AccC(_, _, _)
\* lines 174-179: Accum_Delta over r.iter().zip(proofs.iter())
AccC(rs, ps, j) ==
  IF j > Min(Len(rs), Len(ps)) THEN 0
  ELSE GAdd(GMul(ps[j].c, into_repr(rs[j])), AccC(rs, ps, j + 1))

\* lines 182-198: the pairs ([r_j] A_j, -B_j)
MlPairs(rs, ps) ==
  [j \in 1..Min(Len(rs), Len(ps)) |->
     <<GMul(ps[j].a, into_repr(rs[j])), GNeg(ps[j].b)>>]

\* lines 152-211: the accumulators, the multi-pair miller loop, the comparison
BatchFinish ==
  /\ pc = "finish"
  /\ acc_pi' = AccPi(pvk, sum_r, pi_scalars, multiexp_kern)
  /\ sum_r' = FrNeg(sum_r)
  /\ acc_y' = AccY(pvk, sum_r)
  /\ acc_c' = AccC(r, proofs, 1)
  /\ LET parts == MlPairs(r, proofs)
                    \o <<<<AccC(r, proofs, 1), pvk.delta_g2>>>>
                    \o <<<<AccPi(pvk, sum_r, pi_scalars, multiexp_kern),
                           pvk.gamma_g2>>>>
         fe == final_exponentiation(miller_loop(parts))
     IN /\ result' = IF fe = <<>> THEN "panic"
                     ELSE IF fe[1] = AccY(pvk, sum_r) THEN "Ok(true)"
                     ELSE "Ok(false)"
        /\ pc' = IF fe = <<>> THEN "aborted" ELSE "done"
  /\ work' = work \cup {"group", "miller_loop", "final_exp"}
  /\ UNCHANGED <<env, vk, pvk, op, singleArgs, batchArgs, scopeVars,
                 draws, r, pi_scalars, multiexp_kern>>

\* the caller has taken the Result of the call; the locals are dropped
CallReturned ==
  /\ pc = "done"
  /\ pc' = "idle"
  /\ op' = "none"
  /\ result' = "none"
  /\ work' = {}
  /\ proof' = NoProof
  /\ public_inputs' = <<>>
  /\ proofs' = <<>>
  /\ inputs_list' = <<>>
  /\ ScopeFresh
  /\ BatchFresh
  /\ UNCHANGED <<env, vk, pvk>>

(***************************************************************************)
(* The specification.                                                      *)
(***************************************************************************)
Next ==
  \/ PrepareVerifyingKey
  \/ CanCall /\ \E p \in ProofVals, inp \in SingleInputVecs : VerifyProof(p, inp)
  \/ ScopeSpawnAB
  \/ ScopeSpawnC
  \/ TaskAB
  \/ TaskC
  \/ body = "multiscalar" /\ \E n \in 1..MaxThreads : ScopeMultiscalar(n)
  \/ ScopeMlAcc
  \/ VerifyProofReturn
  \/ CanCall /\ \E ps \in ProofSeqs, lists \in InputLists :
                  VerifyProofsBatch(ps, lists)
  \/ pc = "sample" /\ \E ts \in [1..Len(proofs) -> Draws] : BatchSample(ts)
  \/ BatchGetKernel
  \/ BatchFinish
  \/ CallReturned

Spec == Init /\ [][Next]_vars

(***************************************************************************)
(* Reference notions the properties are stated with.  They are written     *)
(* over the verifying key vk and the arguments of the call, with plain     *)
(* modular arithmetic on the logarithms, and use none of the operators     *)
(* above.                                                                  *)
(***************************************************************************)
RECURSIVE RefInputSum(_, _, _)
RefInputSum(k, inp, i) ==
  IF i > Len(inp) THEN 0
  ELSE inp[i] * k.ic[i + 1] + RefInputSum(k, inp, i + 1)

\* Acc = ic[0] + sum over i of public_inputs[i] * ic[i+1]
RefAcc(k, inp) == (k.ic[1] + RefInputSum(k, inp, 1)) % Q

RefLengthOk(k, inp) == Len(inp) + 1 = Len(k.ic)

\* e(A,B) * e(Acc,-gamma) * e(C,-delta) = e(alpha,beta)
PairingEq(k, p, inp) ==
  (p.a * p.b + RefAcc(k, inp) * (Q - k.gamma_g2) + p.c * (Q - k.delta_g2)) % Q
    = (k.alpha_g1 * k.beta_g2) % Q

\* A*B = alpha*beta + inputs*gamma + C*delta
OriginalEq(k, p, inp) ==
  (p.a * p.b) % Q
    = (k.alpha_g1 * k.beta_g2 + RefAcc(k, inp) * k.gamma_g2 + p.c * k.delta_g2) % Q

RefOutcome(k, p, inp) ==
  IF ~RefLengthOk(k, inp) THEN "Err(MalformedVerifyingKey)"
  ELSE IF PairingEq(k, p, inp) THEN "Ok(true)"
  ELSE "Ok(false)"

UpperOf(c) ==
  CASE c = "a" -> "A" [] c = "c" -> "C" [] c = "g" -> "G" [] c = "o" -> "O"
    [] c = "p" -> "P" [] c = "t" -> "T" [] c = "u" -> "U" [] OTHER -> c

\* e is set to the word w in some mix of upper and lower case
SpelledAs(e, w) ==
  /\ e.set
  /\ Len(e.val) = Len(w)
  /\ \A i \in 1..Len(w) : e.val[i] \in {w[i], UpperOf(w[i])}

PolicyAuto(e) == ~e.set \/ SpelledAs(e, <<"a", "u", "t", "o">>)

PolicyCpu(e) == SpelledAs(e, <<"c", "p", "u">>)

PolicyGpu(e) == SpelledAs(e, <<"g", "p", "u">>)

PolicyValid(e) == PolicyAuto(e) \/ PolicyCpu(e) \/ PolicyGpu(e)

Ended == pc \in {"done", "aborted"}

InSingle == pvk # NoKey /\ op = "verify_proof"

InBatch == pvk # NoKey /\ op = "verify_proofs_batch"

\* a batch call with as many lists as proofs, every list of the right length
WellFormedBatch ==
  /\ InBatch
  /\ Len(proofs) = Len(inputs_list)
  /\ \A j \in 1..Len(inputs_list) : RefLengthOk(vk, inputs_list[j])

InvalidProofs == {j \in 1..Len(proofs) : ~PairingEq(vk, proofs[j], inputs_list[j])}

(***************************************************************************)
(* Properties.                                                             *)
(***************************************************************************)
\* C1: with public_inputs.len() + 1 == pvk.ic.len(), verify_proof returns
\* Ok(true) exactly when e(A,B) * e(Acc,-gamma) * e(C,-delta) = e(alpha,beta),
\* and otherwise Ok(false); in particular it returns Ok(true) for every proof
\* that satisfies A*B = alpha*beta + inputs*gamma + C*delta.
C1_VerifyProofDecidesPairingEquation ==
  (InSingle /\ Ended /\ RefLengthOk(vk, public_inputs)) =>
    /\ result \in {"Ok(true)", "Ok(false)"}
    /\ result = "Ok(true)" <=> PairingEq(vk, proof, public_inputs)
    /\ OriginalEq(vk, proof, public_inputs) => result = "Ok(true)"

C1_Witness ==
  /\ InSingle /\ pc = "done"
  /\ Len(public_inputs) = 2
  /\ RefLengthOk(vk, public_inputs)
  /\ OriginalEq(vk, proof, public_inputs)
  /\ result = "Ok(true)"

\* C2: a batch call (valid accelerator policy) over n proofs that each satisfy
\* the single-proof equation with their own public inputs returns Ok(true),
\* whatever the n coefficients drawn.
C2_BatchAcceptsValidProofs ==
  (WellFormedBatch /\ Ended /\ PolicyValid(env) /\ InvalidProofs = {}) =>
    result = "Ok(true)"

C2_Witness ==
  /\ WellFormedBatch /\ pc = "done" /\ InvalidProofs = {}
  /\ Len(proofs) = 2
  /\ proofs[1] # proofs[2]
  /\ draws = <<2, 3>>
  /\ result = "Ok(true)"

\* C3: a batch call (valid accelerator policy) in which exactly one proof j
\* fails the single-proof equation returns Ok(false) whenever the value drawn
\* for j is not zero; zero is the only draw that gives the coefficient zero.
C3_BatchRejectsOneInvalidProof ==
  (WellFormedBatch /\ Ended /\ PolicyValid(env) /\ Cardinality(InvalidProofs) = 1) =>
    \A j \in InvalidProofs :
      /\ draws[j] # 0 => result = "Ok(false)"
      /\ result = "Ok(true)" => draws[j] = 0
      /\ r[j] = 0 <=> draws[j] = 0

C3_Witness ==
  /\ WellFormedBatch /\ pc = "done"
  /\ Len(proofs) = 2
  /\ InvalidProofs = {2}
  /\ draws = <<1, 2>>
  /\ result = "Ok(false)"

\* C4: a verify_proof call with public_inputs.len() + 1 != pvk.ic.len() has
\* returned Err(MalformedVerifyingKey) with no sub-task spawned and no
\* multiscalar accumulation, miller loop or final exponentiation performed.
C4_VerifyProofLengthMismatch ==
  (InSingle /\ ~RefLengthOk(vk, public_inputs)) =>
    /\ pc = "done"
    /\ result = "Err(MalformedVerifyingKey)"
    /\ work = {}
    /\ \A t \in {"ab", "c"} : task[t] = "unspawned"
    /\ body = "none"
    /\ ml_a_b = FqkZero /\ ml_all = FqkZero /\ ml_acc = FqkZero

C4_Witness ==
  /\ InSingle
  /\ Len(public_inputs) + 1 < Len(vk.ic)
  /\ result = "Err(MalformedVerifyingKey)"

\* C5: a batch call in which some entry of public_inputs has the wrong length,
\* at whatever position and under whatever policy value, has returned
\* Err(MalformedVerifyingKey) without drawing from rng, consulting the
\* selector, acquiring a kernel or doing any arithmetic.
C5_BatchLengthMismatch ==
  (InBatch /\ \E j \in 1..Len(inputs_list) : ~RefLengthOk(vk, inputs_list[j])) =>
    /\ pc = "done"
    /\ result = "Err(MalformedVerifyingKey)"
    /\ work = {}
    /\ draws = <<>> /\ r = <<>> /\ pi_scalars = <<>>
    /\ multiexp_kern = NoKernel
    /\ sum_r = 0 /\ acc_pi = 0 /\ acc_y = 0 /\ acc_c = 0

C5_Witness ==
  /\ InBatch
  /\ Len(inputs_list) = 2
  /\ RefLengthOk(vk, inputs_list[1])
  /\ ~RefLengthOk(vk, inputs_list[2])
  /\ Len(proofs) = 2
  /\ ~PolicyValid(env)
  /\ result = "Err(MalformedVerifyingKey)"

\* C6: with a valid accelerator policy every call of verify_proof and of
\* verify_proofs_batch ends in Ok(true), Ok(false) or
\* Err(MalformedVerifyingKey), for every combination of argument lengths, and
\* no call aborts.
C6_OutcomeIsBooleanOrError ==
  (PolicyValid(env) /\ op # "none") =>
    /\ pc # "aborted"
    /\ pc = "done" => result \in {"Ok(true)", "Ok(false)", "Err(MalformedVerifyingKey)"}

\* C7: with a policy value outside {auto, cpu, gpu} every call of
\* verify_proofs_batch ends in a fatal abort, before the length check returns
\* a result, before any coefficient is drawn and before any scalar combination
\* or group arithmetic.
C7_InvalidPolicyAbortsFirst ==
  (InBatch /\ ~PolicyValid(env)) =>
    /\ work = {}
    /\ draws = <<>>
    /\ Ended => (pc = "aborted" /\ result = "panic")

\* C8: the selector yields no kernel for auto, cpu and an unset variable, one
\* kernel for gpu, compared without regard to case, and aborts for every other
\* value; verify_proof never consults it and its outcome is the one the
\* arguments determine, whatever the policy value.
C8_SelectorMapping ==
  /\ (InBatch /\ "selector" \in work) =>
       /\ (PolicyAuto(env) \/ PolicyCpu(env)) =>
            /\ multiexp_kern.tag = "None"
            /\ "kernel" \notin work
            /\ result # "panic"
       /\ PolicyGpu(env) =>
            /\ multiexp_kern.tag = "Some"
            /\ "kernel" \in work
            /\ result # "panic"
       /\ ~PolicyValid(env) =>
            /\ pc = "aborted" /\ result = "panic"
            /\ multiexp_kern = NoKernel
            /\ "kernel" \notin work
  /\ InSingle =>
       /\ "selector" \notin work /\ "kernel" \notin work
       /\ multiexp_kern = NoKernel
       /\ Ended => result = RefOutcome(vk, proof, public_inputs)

C8_Witness ==
  /\ InBatch
  /\ env = SetTo(<<"G", "p", "u">>)
  /\ multiexp_kern.tag = "Some"
  /\ pc = "done"

\* C9: in verify_proof the three miller-loop contributions are multiplied only
\* after both spawned sub-tasks and the inline accumulation have completed, no
\* sub-task is running when the call returns, each contribution is written by
\* exactly one sub-computation, and the result is the one the arguments
\* determine under every interleaving and every thread count.
C9_JoinBeforeCombine ==
  (InSingle /\ RefLengthOk(vk, public_inputs)) =>
    /\ \A s \in {"ml_a_b", "ml_all", "ml_acc"} : Cardinality(writers[s]) <= 1
    /\ writers["ml_a_b"] \subseteq {"task_ab"}
    /\ writers["ml_all"] \subseteq {"task_c"}
    /\ writers["ml_acc"] \subseteq {"scope_body"}
    /\ (result # "none" \/ "final_exp" \in work \/ Ended) =>
         /\ body = "end"
         /\ \A t \in {"ab", "c"} : task[t] = "done"
         /\ writers["ml_a_b"] = {"task_ab"}
         /\ writers["ml_all"] = {"task_c"}
         /\ writers["ml_acc"] = {"scope_body"}
         /\ result = RefOutcome(vk, proof, public_inputs)

C9_Witness ==
  /\ InSingle /\ pc = "done"
  /\ num_threads > 1
  /\ Len(public_inputs) = 2
  /\ result = "Ok(false)"

\* C10: a batch call with no proofs and no public-input lists (valid policy,
\* any prepared key) draws nothing from rng and returns Ok(true), with sum_r
\* zero, Acc_Gamma and Acc_Delta the group identity and Acc_Y the identity of
\* the target group.
C10_EmptyBatchAccepts ==
  (InBatch /\ proofs = <<>> /\ inputs_list = <<>> /\ PolicyValid(env)) =>
    /\ pc # "aborted"
    /\ "rng" \notin work
    /\ draws = <<>> /\ r = <<>>
    /\ sum_r = 0
    /\ pc = "done" =>
         /\ result = "Ok(true)"
         /\ acc_pi = 0 /\ acc_c = 0 /\ acc_y = 0

C10_Witness ==
  /\ InBatch /\ proofs = <<>> /\ inputs_list = <<>>
  /\ Len(vk.ic) = 3
  /\ PolicyGpu(env)
  /\ pc = "done"
  /\ result = "Ok(true)"

====
